---- MODULE Spec2Model ----
(***************************************************************************)
(* Model of docs/tutorials/rescale_AS209_weights.py: the notebook's use of *)
(* the CASA table tool (tb) and measurement-set tool (ms), the scatter     *)
(* routine get_scatter_datadescid and its plotting wrapper.                *)
(*                                                                         *)
(* The file is a jupytext notebook (lines 1-13): an exception that no      *)
(* handler catches ends the cell that raised it, and the kernel, with tb   *)
(* and ms, lives on for the next cell.                                     *)
(***************************************************************************)
EXTENDS Integers, Sequences, FiniteSets

\* Bounds of the generated windows: channels and samples per window.
MaxChan == 2
MaxVis == 2

(***************************************************************************)
(* float64 arithmetic on the values the model uses.  A value is <<n, d>>:  *)
(* the reduced fraction n/d with d > 0, or <<1,0>> = +inf, <<-1,0>> = -inf,*)
(* <<0,0>> = nan.  All inputs are small dyadic numbers, on which float64   *)
(* arithmetic is exact; signed zeros are not distinguished.                *)
(***************************************************************************)
Abs(x) == IF x < 0 THEN -x ELSE x

Sign(x) == IF x > 0 THEN 1 ELSE IF x < 0 THEN -1 ELSE 0

RECURSIVE Gcd(_, _)
Gcd(a, b) == IF b = 0 THEN a ELSE Gcd(b, a % b)

Float(n, d) ==
    IF d = 0 THEN <<Sign(n), 0>>
    ELSE LET g == Gcd(Abs(n), Abs(d))
             s == Sign(d)
         IN  <<(s * n) \div g, (s * d) \div g>>

Num(i) == <<i, 1>>

NaN == <<0, 0>>

Inf == <<1, 0>>

IsNaN(a) == a = NaN

IsFinite(a) == a[2] # 0

FNeg(a) == <<-a[1], a[2]>>

FAdd(a, b) ==
    IF IsNaN(a) \/ IsNaN(b) THEN NaN
    ELSE IF ~IsFinite(a) /\ ~IsFinite(b) THEN (IF a = b THEN a ELSE NaN)
    ELSE IF ~IsFinite(a) THEN a
    ELSE IF ~IsFinite(b) THEN b
    ELSE Float(a[1] * b[2] + b[1] * a[2], a[2] * b[2])

FSub(a, b) == FAdd(a, FNeg(b))

FMul(a, b) ==
    IF IsNaN(a) \/ IsNaN(b) THEN NaN
    ELSE Float(a[1] * b[1], a[2] * b[2])

\* IEEE division: x/0 is +-inf (nan for 0/0), x/inf is 0 (nan for inf/inf).
FDiv(a, b) ==
    IF IsNaN(a) \/ IsNaN(b) THEN NaN
    ELSE LET s == IF b[1] < 0 THEN -1 ELSE 1
         IN  Float(a[1] * b[2] * s, a[2] * Abs(b[1]))

ISqrt(n) == CHOOSE r \in 0..n : r * r = n

\* np.sqrt: nan for a negative argument, inf for inf.
FSqrt(a) ==
    IF IsNaN(a) \/ a[1] < 0 THEN NaN
    ELSE IF ~IsFinite(a) THEN a
    ELSE <<ISqrt(a[1]), ISqrt(a[2])>>

\* complex128 values are <<re, im>>.
Cplx(re, im) == <<Num(re), Num(im)>>

CSub(a, b) == <<FSub(a[1], b[1]), FSub(a[2], b[2])>>

\* complex / real (the real promoted to s + 0j): both parts are divided by s.
CDivReal(a, s) == <<FDiv(a[1], s), FDiv(a[2], s)>>

CFinite(a) == IsFinite(a[1]) /\ IsFinite(a[2])

(***************************************************************************)
(* The measurement set: what ms.getdata can return for a selected          *)
(* DATA_DESC_ID.  data, model_data, flag are [npol][nchan][nvis], weight   *)
(* is [npol][nvis]; npol = 2 (XX, YY).                                     *)
(***************************************************************************)
NPol == 1..2

DataAt(p, c, v) == Cplx(3 * v + c + p - 4, c - 2 * v + p)

ModelAt(p, c, v) == Cplx(1, c)

DataArr(nc, nv) ==
    [p \in NPol |-> [c \in 1..nc |-> [v \in 1..nv |-> DataAt(p, c, v)]]]

ModelArr(nc, nv) ==
    [p \in NPol |-> [c \in 1..nc |-> [v \in 1..nv |-> ModelAt(p, c, v)]]]

WeightValues == {Num(0), Num(1), Num(4)}

BoolArrs(nc, nv) == [1..nc -> [1..nv -> BOOLEAN]]

NotArr(f) == [c \in DOMAIN f |-> [v \in DOMAIN f[c] |-> ~f[c][v]]]

ConstArr(nc, nv, b) == [c \in 1..nc |-> [v \in 1..nv |-> b]]

Checker(nc, nv) == [c \in 1..nc |-> [v \in 1..nv |-> (c + v) % 2 = 0]]

\* Every flag array for XX, with YY its complement.
FlagPairs(nc, nv) == {<<fx, NotArr(fx)>> : fx \in BoolArrs(nc, nv)}

FewFlagPairs(nc, nv) ==
    {<<ConstArr(nc, nv, FALSE), ConstArr(nc, nv, FALSE)>>,
     <<ConstArr(nc, nv, TRUE), ConstArr(nc, nv, TRUE)>>,
     <<Checker(nc, nv), NotArr(Checker(nc, nv))>>}

NextWeight(w) == IF w = Num(0) THEN Num(1) ELSE IF w = Num(1) THEN Num(4) ELSE Num(0)

\* Every weight row for XX, with YY the same row or the row with each value changed.
WeightPairs(nv) ==
    UNION {{<<wx, wx>>, <<wx, [v \in 1..nv |-> NextWeight(wx[v])]>>}
           : wx \in [1..nv -> WeightValues]}

FixedWeights(nv) ==
    <<[v \in 1..nv |-> IF v % 2 = 1 THEN Num(1) ELSE Num(4)],
      [v \in 1..nv |-> IF v % 2 = 1 THEN Num(4) ELSE Num(1)]>>

Window(nc, nv, w, f) ==
    [data |-> DataArr(nc, nv), model_data |-> ModelArr(nc, nv),
     weight |-> w, flag |-> f]

Shapes == (1..MaxChan) \X (1..MaxVis)

FlagWindows ==
    UNION {{Window(s[1], s[2], FixedWeights(s[2]), f) : f \in FlagPairs(s[1], s[2])}
           : s \in Shapes}

WeightWindows ==
    UNION {{Window(s[1], s[2], w, f) :
               w \in WeightPairs(s[2]), f \in FewFlagPairs(s[1], s[2])}
           : s \in Shapes}

\* 2 polarizations, 1 channel, 3 samples; data - model_data = [[2,0,-2],[4,0,-4]].
SyntheticWindow ==
    [data |-> <<<< <<Cplx(3, 1), Cplx(1, 1), Cplx(-1, 1)>> >>,
                << <<Cplx(5, 1), Cplx(1, 1), Cplx(-3, 1)>> >> >>,
     model_data |-> <<<< <<Cplx(1, 1), Cplx(1, 1), Cplx(1, 1)>> >>,
                      << <<Cplx(1, 1), Cplx(1, 1), Cplx(1, 1)>> >> >>,
     weight |-> << <<Num(1), Num(1), Num(1)>>, <<Num(4), Num(4), Num(4)>> >>,
     flag |-> <<<< <<FALSE, FALSE, FALSE>> >>, << <<FALSE, FALSE, FALSE>> >> >>]

ModelWindows == FlagWindows \cup WeightWindows \cup {SyntheticWindow}

\* A measurement set on which tclean never saved the model: MODEL_DATA is empty.
NoModelWindows ==
    {[w EXCEPT !.model_data = <<>>] : w \in WeightWindows \cup {SyntheticWindow}}

Windows == ModelWindows \cup NoModelWindows

\* DATA_DESC_IDs of the calls of lines 344-359
DataDescIds == {7, 22}

\* sigma_rescale: the default 1.0, and 2 for the rescaling of line 372 (whose
\* np.sqrt(2) is no exact float64 ratio)
Rescales == {Num(1), Num(2)}


(***************************************************************************)
(* get_scatter_datadescid, lines 215-245, on the query getdata returned.   *)
(***************************************************************************)
\* the check made on the wrong array
ModelDataPresent_of_data(q) == Len(q.data) > 0

\* len(model_data) > 0
ModelDataPresent(q) == Len(q.model_data) > 0

\* data and model_data have one shape, weight has its polarization and sample
\* axes, and there are two polarizations to unpack: otherwise numpy raises.
ShapesAgree(q) ==
    /\ DOMAIN q.data = NPol
    /\ DOMAIN q.model_data = NPol
    /\ DOMAIN q.weight = NPol
    /\ DOMAIN q.flag = NPol
    /\ \A p \in NPol :
         /\ DOMAIN q.model_data[p] = DOMAIN q.data[p]
         /\ DOMAIN q.flag[p] = DOMAIN q.data[p]
         /\ \A c \in DOMAIN q.data[p] :
              /\ DOMAIN q.model_data[p][c] = DOMAIN q.data[p][c]
              /\ DOMAIN q.flag[p][c] = DOMAIN q.data[p][c]
              /\ DOMAIN q.weight[p] = DOMAIN q.data[p][c]

\* residuals = data - model_data
Residuals(q) ==
    [p \in DOMAIN q.data |-> [c \in DOMAIN q.data[p] |->
        [v \in DOMAIN q.data[p][c] |-> CSub(q.data[p][c][v], q.model_data[p][c][v])]]]

\* the weight taken for the variance: np.sqrt(weight)
Sigma0_sqrt_weight(weight) ==
    [p \in DOMAIN weight |-> [v \in DOMAIN weight[p] |-> FSqrt(weight[p][v])]]

\* a zero weight clamped to one: np.sqrt(1 / np.maximum(weight, 1))
Sigma0_clamped(weight) ==
    [p \in DOMAIN weight |-> [v \in DOMAIN weight[p] |->
        FSqrt(FDiv(Num(1), IF weight[p][v] = Num(0) THEN Num(1) ELSE weight[p][v]))]]

\* sigma = np.sqrt(1 / weight)
Sigma0(weight) ==
    [p \in DOMAIN weight |-> [v \in DOMAIN weight[p] |->
        FSqrt(FDiv(Num(1), weight[p][v]))]]

\* the rescaling left out
Rescaled_dropped(s, rescale) == s

\* sigma *= sigma_rescale
Rescaled(s, rescale) ==
    [p \in DOMAIN s |-> [v \in DOMAIN s[p] |-> FMul(s[p][v], rescale)]]

SigmaOf(q, rescale) == Rescaled(Sigma0(q.weight), rescale)

\* sigma[:, np.newaxis, :]: the sigma of a residual's own polarization and sample
Broadcast(s, p, c, v) == s[p][v]

\* scatter = residuals / sigma[:, np.newaxis, :]
Divide(res, s) ==
    [p \in DOMAIN res |-> [c \in DOMAIN res[p] |->
        [v \in DOMAIN res[p][c] |-> CDivReal(res[p][c][v], Broadcast(s, p, c, v))]]]

RECURSIVE MaskRow(_, _)
MaskRow(row, keep) ==
    IF row = <<>> THEN <<>>
    ELSE (IF Head(keep) THEN <<Head(row)>> ELSE <<>>) \o MaskRow(Tail(row), Tail(keep))

\* a[keep] for a 2-d array and a boolean array of its shape: the kept entries
\* in row-major order, as a 1-d array
RECURSIVE BoolIndex(_, _)
BoolIndex(a, keep) ==
    IF a = <<>> THEN <<>>
    ELSE MaskRow(Head(a), Head(keep)) \o BoolIndex(Tail(a), Tail(keep))

\* the mask not negated: scatter_XX[flag_XX]
Unflagged_keeps_flagged(a, flag) == BoolIndex(a, flag)

\* scatter_XX[~flag_XX]
Unflagged(a, flag) == BoolIndex(a, NotArr(flag))

\* both polarizations filtered by flag_XX
Split_by_flag_XX(sc, flag, applyFlags) ==
    IF applyFlags
    THEN <<Unflagged(sc[1], flag[1]), Unflagged(sc[2], flag[1])>>
    ELSE <<sc[1], sc[2]>>

\* lines 237-245: split the polarizations, apply the flags if asked
Split(sc, flag, applyFlags) ==
    IF applyFlags
    THEN <<Unflagged(sc[1], flag[1]), Unflagged(sc[2], flag[2])>>
    ELSE <<sc[1], sc[2]>>

GetScatter(q, rescale, applyFlags) ==
    Split(Divide(Residuals(q), SigmaOf(q, rescale)), q.flag, applyFlags)

(***************************************************************************)
(* scatter_hist and plot_histogram_datadescid, lines 267-335.              *)
(***************************************************************************)
RECURSIVE Concat(_)
Concat(rows) == IF rows = <<>> THEN <<>> ELSE Head(rows) \o Concat(Tail(rows))

\* ndarray.flatten() of an array of ndim dimensions (1 or 2): row-major
Flatten(a, ndim) == IF ndim = 1 THEN a ELSE Concat(a)

RealPart(a) == [i \in DOMAIN a |-> a[i][1]]

ImagPart(a) == [i \in DOMAIN a |-> a[i][2]]

\* the figure scatter_hist builds: four histograms, no title yet
ScatterHist(xx, yy, logScale) ==
    [hists |-> <<RealPart(xx), ImagPart(xx), RealPart(yy), ImagPart(yy)>>,
     log |-> logScale, suptitle |-> <<>>]

\* what scatter_hist returns
ScatterHistReturn(f) == <<f>>

\* what plot_histogram_datadescid returns: it ends without a return statement
PlotReturn(f) == <<>>


(***************************************************************************)
(* The notebook as a state machine.  pc is the line about to run; "cell"   *)
(* is the top level after line 163, where each further cell is a call of   *)
(* plot_histogram_datadescid (lines 344-372, and the loop of 380-381);     *)
(* "end" is the end of such a call, by return or by an exception, with the *)
(* frames of the call still in place.                                      *)
(***************************************************************************)
VARIABLES
    pc,             \* the line about to run
    tbOpen,         \* tb holds an open table
    printed,        \* the running cell has printed the message of lines 124-126
    msOpen,         \* ms holds an open measurement set
    msSel,          \* ms's active selection: <<>> or <<DATA_DESC_ID>>
    msOps,          \* the last two calls made on ms
    exc,            \* the exception that ended a cell, "none" if none did
    datadescid, sigma_rescale, log, apply_flags,   \* the arguments of the call
    query,          \* get_scatter_datadescid's query: <<>> or <<the dictionary>>
    sigma,          \* its sigma: <<>> or <<the array>>
    scatter,        \* its scatter before the split: <<>> or <<the array>>
    ret,            \* what it returned: <<>> or <<scatter_XX, scatter_YY>>
    fig,            \* plot_histogram_datadescid's fig: <<>> or <<the figure>>
    plotRet         \* what plot_histogram_datadescid returned: <<>> is None

tbVars == <<tbOpen, printed>>

msVars == <<msOpen, msSel, msOps>>

argVars == <<datadescid, sigma_rescale, log, apply_flags>>

localVars == <<query, sigma, scatter, ret>>

plotVars == <<fig, plotRet>>

vars == <<pc, tbVars, msVars, exc, argVars, localVars, plotVars>>

Site(op, next, onraise) == [op |-> op, next |-> next, onraise |-> onraise]

\* The calls on tb and ms in program order: what runs next, and where control
\* goes when the call raises ("" where the model lets no exception arise).
Program ==
    [L102 |-> Site("tb.open", "L103", ""),
     L103 |-> Site("tb.getcol", "L104", ""),
     L104 |-> Site("tb.close", "L111", ""),
     L111 |-> Site("tb.open", "L112", ""),
     L112 |-> Site("tb.colnames", "L113", ""),
     L113 |-> Site("tb.close", "L119", ""),
     L119 |-> Site("tb.open", "L120", ""),
     L120 |-> Site("tb.getcol", "L121", "L123"),
     L121 |-> Site("tb.getcol", "L122", "L123"),
     L122 |-> Site("tb.getcol", "L128", "L123"),
     L128 |-> Site("tb.close", "L132", ""),
     L132 |-> Site("ms.open", "L134", ""),
     L134 |-> Site("ms.selectinit", "L136", "L156"),
     L136 |-> Site("ms.getdata", "L138", "L156"),
     L138 |-> Site("ms.reset", "L139", ""),
     L139 |-> Site("ms.close", "L156", ""),
     L156 |-> Site("ms.open", "L158", ""),
     L158 |-> Site("ms.selectinit", "L160", "cell"),
     L160 |-> Site("ms.getdata", "L162", "cell"),
     L162 |-> Site("ms.reset", "L163", ""),
     L163 |-> Site("ms.close", "cell", ""),
     L206 |-> Site("ms.open", "L208", ""),
     L208 |-> Site("ms.selectinit", "L209", "end"),
     L209 |-> Site("ms.getdata", "L212", "end"),
     L212 |-> Site("ms.reset", "L213", ""),
     L213 |-> Site("ms.close", "L222", "")]

At(op) == pc \in DOMAIN Program /\ Program[pc].op = op

Goto == pc' = Program[pc].next

\* the selection a selectinit at pc asks for: datadescid=0 at the top level
SelectKey == IF pc \in {"L134", "L158"} THEN 0 ELSE datadescid

Called(op) == msOps' = <<msOps[2], op>>

Init ==
    /\ pc = "L102"
    /\ tbOpen = FALSE
    /\ printed = FALSE
    /\ msOpen = FALSE
    /\ msSel = <<>>
    /\ msOps = <<"none", "none">>
    /\ exc = "none"
    /\ datadescid = 0
    /\ sigma_rescale = Num(1)
    /\ log = FALSE
    /\ apply_flags = TRUE
    /\ query = <<>>
    /\ sigma = <<>>
    /\ scatter = <<>>
    /\ ret = <<>>
    /\ fig = <<>>
    /\ plotRet = <<>>

tb_open ==
    /\ At("tb.open")
    /\ tbOpen' = TRUE
    /\ Goto
    /\ UNCHANGED <<printed, msVars, exc, argVars, localVars, plotVars>>

\* tb.getcol returns the column, or raises RuntimeError where the spectral
\* windows have different shapes (lines 120-122)
tb_getcol ==
    /\ At("tb.getcol")
    /\ \/ Goto
       \/ Program[pc].onraise # "" /\ pc' = Program[pc].onraise
    /\ UNCHANGED <<tbVars, msVars, exc, argVars, localVars, plotVars>>

tb_colnames ==
    /\ At("tb.colnames")
    /\ Goto
    /\ UNCHANGED <<tbVars, msVars, exc, argVars, localVars, plotVars>>

\* except RuntimeError: print(...)
except_RuntimeError ==
    /\ pc = "L123"
    /\ printed' = TRUE
    /\ pc' = "L128"
    /\ UNCHANGED <<tbOpen, msVars, exc, argVars, localVars, plotVars>>

\* a close written as the last line of the try body, which an exception skips
tb_close_in_try_body ==
    /\ At("tb.close")
    /\ tbOpen' = (printed /\ tbOpen)
    /\ Goto
    /\ UNCHANGED <<printed, msVars, exc, argVars, localVars, plotVars>>

\* tb.close(): lines 104 and 113, and line 128 in the finally clause
tb_close ==
    /\ At("tb.close")
    /\ tbOpen' = FALSE
    /\ Goto
    /\ UNCHANGED <<printed, msVars, exc, argVars, localVars, plotVars>>

\* ms.open(fname), the first statement of its cell (whose output starts empty).
\* On a store a failed cell left open the selection of that cell may survive
\* or be dropped: the tool documents neither.
ms_open ==
    /\ At("ms.open")
    /\ printed' = FALSE
    /\ msOpen' = TRUE
    /\ \/ msSel' = msSel
       \/ msOpen /\ msSel # <<>> /\ msSel' = <<>>
    /\ Called("open")
    /\ Goto
    /\ UNCHANGED <<tbOpen, exc, argVars, localVars, plotVars>>

Raise(e) ==
    /\ exc' = e
    /\ pc' = Program[pc].onraise

ms_selectinit ==
    /\ At("ms.selectinit")
    /\ Called("selectinit")
    /\ \/ msSel' = <<SelectKey>> /\ Goto /\ UNCHANGED exc
       \/ UNCHANGED msSel /\ Raise("RuntimeError")
    /\ UNCHANGED <<tbVars, msOpen, argVars, localVars, plotVars>>

\* ms.getdata([...]): inside get_scatter_datadescid the result is its query
ms_getdata ==
    /\ At("ms.getdata")
    /\ Called("getdata")
    /\ \/ /\ Goto
          /\ IF pc = "L209"
             THEN \E w \in Windows : query' = <<w>>
             ELSE UNCHANGED query
          /\ UNCHANGED exc
       \/ UNCHANGED query /\ Raise("RuntimeError")
    /\ UNCHANGED <<tbVars, msOpen, msSel, argVars, sigma, scatter, ret, plotVars>>

\* ms.selectinit(reset=True)
ms_reset ==
    /\ At("ms.reset")
    /\ msSel' = <<>>
    /\ Called("reset")
    /\ Goto
    /\ UNCHANGED <<tbVars, msOpen, exc, argVars, localVars, plotVars>>

ms_close ==
    /\ At("ms.close")
    /\ msOpen' = FALSE
    /\ Called("close")
    /\ Goto
    /\ UNCHANGED <<tbVars, msSel, exc, argVars, localVars, plotVars>>

\* a cell calls plot_histogram_datadescid, which calls get_scatter_datadescid
\* with its arguments (lines 327-329)
plot_histogram_datadescid ==
    /\ pc = "cell"
    /\ datadescid' \in DataDescIds
    /\ sigma_rescale' \in Rescales
    /\ log' \in BOOLEAN
    /\ apply_flags' \in BOOLEAN
    /\ exc' = "none"
    /\ query' = <<>> /\ sigma' = <<>> /\ scatter' = <<>> /\ ret' = <<>>
    /\ fig' = <<>> /\ plotRet' = <<>>
    /\ pc' = "L206"
    /\ UNCHANGED <<tbVars, msVars>>

\* lines 215-224: take the arrays out of the query, assert len(model_data) > 0
assert_model_data ==
    /\ pc = "L222"
    /\ IF ModelDataPresent(query[1])
       THEN pc' = "L227" /\ UNCHANGED exc
       ELSE pc' = "end" /\ exc' = "AssertionError"
    /\ UNCHANGED <<tbVars, msVars, argVars, localVars, plotVars>>

\* lines 227-245: residuals, sigma, scatter, the split, return.  numpy
\* raises ValueError on arrays whose shapes do not agree; the windows of the
\* store all agree, and an empty MODEL_DATA has stopped at the assert.
compute_scatter ==
    /\ pc = "L227"
    /\ IF ShapesAgree(query[1])
       THEN /\ sigma' = <<SigmaOf(query[1], sigma_rescale)>>
            /\ scatter' = <<Divide(Residuals(query[1]), sigma'[1])>>
            /\ ret' = Split(scatter'[1], query[1].flag, apply_flags)
            /\ pc' = "L331"
            /\ UNCHANGED exc
       ELSE /\ exc' = "ValueError"
            /\ pc' = "end"
            /\ UNCHANGED <<sigma, scatter, ret>>
    /\ UNCHANGED <<tbVars, msVars, argVars, query, plotVars>>

\* lines 331-335: flatten, scatter_hist, suptitle; the function ends
plot ==
    /\ pc = "L331"
    /\ LET ndim == IF apply_flags THEN 1 ELSE 2
           made == ScatterHistReturn(
                      ScatterHist(Flatten(ret[1], ndim), Flatten(ret[2], ndim), log))
       IN  /\ fig' = <<[made[1] EXCEPT !.suptitle = <<datadescid>>]>>
           /\ plotRet' = PlotReturn(fig'[1])
    /\ pc' = "end"
    /\ UNCHANGED <<tbVars, msVars, exc, argVars, localVars>>

\* the cell is over: the frames of the call are dropped, tb and ms live on
cell_ends ==
    /\ pc = "end"
    /\ pc' = "cell"
    /\ exc' = "none"
    /\ datadescid' = 0 /\ sigma_rescale' = Num(1) /\ log' = FALSE /\ apply_flags' = TRUE
    /\ query' = <<>> /\ sigma' = <<>> /\ scatter' = <<>> /\ ret' = <<>>
    /\ fig' = <<>> /\ plotRet' = <<>>
    /\ UNCHANGED <<tbVars, msVars>>

Next ==
    \/ tb_open
    \/ tb_getcol
    \/ tb_colnames
    \/ except_RuntimeError
    \/ tb_close
    \/ ms_open
    \/ ms_selectinit
    \/ ms_getdata
    \/ ms_reset
    \/ ms_close
    \/ plot_histogram_datadescid
    \/ assert_model_data
    \/ compute_scatter
    \/ plot
    \/ cell_ends

Spec == Init /\ [][Next]_vars


(***************************************************************************)
(* Properties.                                                             *)
(***************************************************************************)
\* get_scatter_datadescid is over: it has returned (line 331 is next) or an
\* exception has left it
CallOver == pc \in {"L331", "end"}

Weight(p, v) == query[1].weight[p][v]

Flag(p) == query[1].flag[p]

Positions(a) == UNION {{<<c, v>> : v \in DOMAIN a[c]} : c \in DOMAIN a}

AllClear(f) == \A pos \in Positions(f) : ~f[pos[1]][pos[2]]

AllPositive == \A p \in NPol : \A v \in DOMAIN query[1].weight[p] : Weight(p, v)[1] > 0

\* C1: when a call of get_scatter_datadescid is over, by return or by any
\* error, the measurement set it opened is closed.
C1_StoreClosedWhenCallOver == CallOver => ~msOpen

\* C2: once the query holds an empty MODEL_DATA, the call ends at the assert
\* with AssertionError, whatever the other arrays and arguments are, and no
\* sigma, scatter or result is computed.
C2_MissingModelData ==
    (pc \in {"L227", "L331", "end"} /\ query # <<>> /\ Len(query[1].model_data) = 0)
        => /\ pc = "end"
           /\ exc = "AssertionError"
           /\ sigma = <<>> /\ scatter = <<>> /\ ret = <<>>

C2_Witness ==
    /\ pc = "end" /\ exc = "AssertionError"
    /\ ~apply_flags /\ sigma_rescale = Num(2)
    /\ Weight(1, 1) = Num(0) /\ ~AllClear(Flag(2))

SessionOrder ==
    {<<"none", "none">>, <<"none", "open">>, <<"open", "selectinit">>,
     <<"selectinit", "getdata">>, <<"getdata", "reset">>, <<"reset", "close">>,
     <<"close", "open">>}

\* C3: the calls on ms follow the order open, selectinit, getdata, reset,
\* close; no selection is active when the store is opened or closed; and
\* between cells no session is left open or selected.
C3_SingleSession ==
    /\ msOps \in SessionOrder
    /\ msOps[2] \in {"none", "open", "close"} => msSel = <<>>
    /\ pc \in {"L156", "cell", "end"} => ~msOpen /\ msSel = <<>>

ProbeOrBefore ==
    {"L102", "L103", "L104", "L111", "L112", "L113",
     "L119", "L120", "L121", "L122", "L123", "L128"}

\* C4: after the probe of lines 118-128 the table is closed, on the path
\* where getcol raised RuntimeError as on the other; the error is caught,
\* not propagated, and control goes on to line 132; ms is never open while
\* the table is.
C4_ProbeClosesTable ==
    /\ pc \notin ProbeOrBefore => ~tbOpen
    /\ msOpen => ~tbOpen
    /\ printed => pc \in {"L128", "L132"} /\ exc = "none"

C4_Witness == pc = "L132" /\ printed /\ ~tbOpen /\ ~msOpen

\* C5: for a polarization whose flags are all clear, the result with
\* apply_flags is the flattened result without apply_flags on the same query.
C5_AllClearIsFlatten ==
    (pc = "L331" /\ apply_flags)
        => \A p \in NPol :
             AllClear(Flag(p))
                 => ret[p] = Flatten(GetScatter(query[1], sigma_rescale, FALSE)[p], 2)

C5_Witness ==
    /\ pc = "L331" /\ apply_flags
    /\ AllClear(Flag(1)) /\ AllClear(Flag(2))
    /\ Len(query[1].data[1]) > 1 /\ Len(ret[1]) > 2

Kept(f) == {pos \in Positions(f) : ~f[pos[1]][pos[2]]}

\* the place of an unflagged position among the unflagged ones, row by row
Rank(f, pos) ==
    Cardinality({q \in Kept(f) : q[1] < pos[1] \/ (q[1] = pos[1] /\ q[2] <= pos[2])})

\* C6: with apply_flags each polarization's result is a sequence of exactly
\* the scatter entries whose flag in that polarization is clear: as many
\* entries as clear flags, each entry of the scatter in its place.
C6_KeepsUnflagged ==
    (pc = "L331" /\ apply_flags)
        => \A p \in NPol :
             /\ DOMAIN ret[p] = 1..Cardinality(Kept(Flag(p)))
             /\ \A pos \in Kept(Flag(p)) :
                  ret[p][Rank(Flag(p), pos)] = scatter[1][p][pos[1]][pos[2]]

C6_Witness ==
    /\ pc = "L331" /\ apply_flags
    /\ Kept(Flag(1)) # Kept(Flag(2))
    /\ Len(ret[1]) = 2 /\ Len(ret[2]) = 0 /\ Len(query[1].data[1]) = 2

SyntheticCall ==
    /\ pc = "L331"
    /\ query = <<SyntheticWindow>>
    /\ sigma_rescale = Num(1)
    /\ ~apply_flags

\* C7 as stated: on the synthetic window the scatter is [2,0,-2] for both
\* polarizations.
C7_SyntheticBothEqual ==
    SyntheticCall
        => ret = << << <<Cplx(2, 0), Cplx(0, 0), Cplx(-2, 0)>> >>,
                    << <<Cplx(2, 0), Cplx(0, 0), Cplx(-2, 0)>> >> >>

\* C7, amended: each residual is divided by the sigma of its own polarization
\* and sample, the positive sigma with sigma^2 * weight = rescale^2; on the
\* synthetic window the scatter is [2,0,-2] for XX and [8,0,-8] for YY.
C7_DividesBySigma ==
    /\ SyntheticCall
         => ret = << << <<Cplx(2, 0), Cplx(0, 0), Cplx(-2, 0)>> >>,
                     << <<Cplx(8, 0), Cplx(0, 0), Cplx(-8, 0)>> >> >>
    /\ (pc = "L331" /\ ~apply_flags)
         => \A p \in NPol : \A c \in DOMAIN ret[p] : \A v \in DOMAIN ret[p][c] :
              Weight(p, v)[1] > 0
                  => LET s == sigma[1][p][v]
                         x == ret[p][c][v]
                     IN  /\ s[1] > 0 /\ IsFinite(s)
                         /\ FMul(FMul(s, s), Weight(p, v))
                                = FMul(sigma_rescale, sigma_rescale)
                         /\ <<FMul(x[1], s), FMul(x[2], s)>>
                                = CSub(query[1].data[p][c][v],
                                       query[1].model_data[p][c][v])

C7_Witness == SyntheticCall /\ exc = "none"

ZeroWeightAt(p, c, v) ==
    /\ Weight(p, v) = Num(0)
    /\ query[1].data[p][c][v] # query[1].model_data[p][c][v]

\* C8 as stated: no error, and every scatter entry of a zero weight is
\* infinite or NaN.
C8_ZeroWeightNonFinite ==
    pc = "L331"
        => /\ exc = "none"
           /\ \A p \in NPol : \A c \in DOMAIN scatter[1][p] :
                \A v \in DOMAIN scatter[1][p][c] :
                  Weight(p, v) = Num(0) => ~CFinite(scatter[1][p][c][v])

\* C8, amended: a zero weight raises no error and is not clamped: its sigma
\* is infinite, and every scatter entry of it is zero.
C8_ZeroWeightInfiniteSigma ==
    pc = "L331"
        => /\ exc = "none"
           /\ ~apply_flags => ret = <<scatter[1][1], scatter[1][2]>>
           /\ \A p \in NPol : \A c \in DOMAIN scatter[1][p] :
                \A v \in DOMAIN scatter[1][p][c] :
                  Weight(p, v) = Num(0)
                      => /\ sigma[1][p][v] = Inf
                         /\ scatter[1][p][c][v] = Cplx(0, 0)

C8_Witness ==
    /\ pc = "L331" /\ ~apply_flags
    /\ \E p \in NPol : \E c \in DOMAIN ret[p] : \E v \in DOMAIN ret[p][c] :
         ZeroWeightAt(p, c, v) /\ ret[p][c][v] = Cplx(0, 0)

\* C9: a call of plot_histogram_datadescid that ends without an error has
\* returned the figure scatter_hist made, titled with the DATA_DESC_ID.
C9_ReturnsFigure ==
    (pc = "end" /\ exc = "none")
        => /\ fig # <<>>
           /\ fig[1].suptitle = <<datadescid>>
           /\ plotRet = fig

Factors == {2, 4}

DivEach(a, k) == [i \in DOMAIN a |-> CDivReal(a[i], Num(k))]

\* a returned array (1-d with apply_flags, 2-d without) with each entry over k
Over(a, k, ndim) ==
    IF ndim = 1 THEN DivEach(a, k) ELSE [c \in DOMAIN a |-> DivEach(a[c], k)]

\* C10: with all weights positive, rescale multiplied by k gives every sigma
\* multiplied by k and every returned scatter entry divided by k, the same
\* entries being returned.
C10_RescaleLinear ==
    (pc = "L331" /\ AllPositive)
        => \A k \in Factors :
             LET r == FMul(sigma_rescale, Num(k))
                 ndim == IF apply_flags THEN 1 ELSE 2
             IN  /\ SigmaOf(query[1], r)
                        = [p \in NPol |-> [v \in DOMAIN sigma[1][p] |->
                              FMul(sigma[1][p][v], Num(k))]]
                 /\ GetScatter(query[1], r, apply_flags)
                        = <<Over(ret[1], k, ndim), Over(ret[2], k, ndim)>>

C10_Witness ==
    /\ pc = "L331" /\ AllPositive
    /\ sigma_rescale = Num(2) /\ apply_flags
    /\ Len(ret[1]) > 0 /\ Len(ret[1]) < Len(ret[2])

====
